---- MODULE Spec2Model ----
(***************************************************************************)
(* Model of the TP-Link/Kasa client of SwellDreams:                        *)
(*   - the autokey XOR codec of backend/python/network_scan.py             *)
(*     (encrypt, decrypt),                                                 *)
(*   - the device model of backend/python/kasa_controller.py (KasaDevice), *)
(*   - the subnet scan of network_scan.py (check_device, get_local_subnet,  *)
(*     scan_subnet) and the broadcast discovery of kasa_controller.py      *)
(*     (discover_devices).                                                 *)
(*                                                                         *)
(* Python values are represented as follows.                               *)
(*   dict      a TLA+ record/function with string domain; a key is present *)
(*             exactly when it is in DOMAIN (so "k" in d is "k" \in DOMAIN *)
(*             d, d["k"] raises KeyError when absent, d.get("k", v) is     *)
(*             Get(d, "k", v)).  The empty dict is <<>>.                   *)
(*   non-dict  a JSON value that is not an object is a record with the     *)
(*             reserved key py_type: JNull (None), JNum (5), JStr ("x"),   *)
(*             JList(items) (a list).                                      *)
(*   None      for the optional child_id and for d.get("id") of a missing  *)
(*             key: the empty sequence <<>>; a present value v is <<v>>.   *)
(*   str       a TLA+ string; an f-string is the sequence of its pieces.   *)
(*   bytes     a sequence of integers 0..255.                              *)
(*   raise     an exception leaving a function is the record               *)
(*             [raised |-> "<exception class>"].                           *)
(***************************************************************************)
EXTENDS Integers, Sequences, FiniteSets, TLC

\* ------------------------------------------------------------------ bounds
\* longest plaintext handed to encrypt
MaxLen == 3
\* largest number of entries in a children list of a system-info response
MaxChildren == 2
\* largest host suffix handed to scan_subnet as end
MaxHost == 3
\* largest max_workers handed to scan_subnet
MaxWorkers == 2
\* largest timeout, in seconds, handed to discover_devices
MaxTimeout == 2

\* ------------------------------------------------------- program constants
\* the seed of the keystream (key = 171 in encrypt and in decrypt)
InitialKey == 171
\* the length of broadcast_addresses in discover_devices
NumBroadcast == 8
\* "for i in range(5)": how often the probe is sent to every address
SendRounds == 5
\* "if len(data) > 50": a datagram this long or shorter is not a device reply
MinReplyLen == 50
\* sock.settimeout(1.0): the seconds one recvfrom waits
RecvTimeout == 1

\* ------------------------------------------------------------------- state
VARIABLES
  plaintext,   \* codec: the string last handed to encrypt (sequence of ord values)
  wire,        \* codec: the outcome of encrypt, [ret |-> bytes] or [raised |-> ...]
  decoded,     \* codec: what decrypt returned for wire[4:] (sequence of ord values)
  codecPc,     \* codec: "idle", "encrypted" or "decrypted"
  child_id,    \* device: KasaDevice.child_id, <<>> for None
  info,        \* device: the value send_command returned to the last get_info
  sent,        \* device: the commands the last operation handed to send_command
  result,      \* device: the value the last operation returned (or raised)
  op,          \* device: the last operation, "new" after construction
  scanStart,   \* scan: the argument start of scan_subnet
  scanEnd,     \* scan: the argument end of scan_subnet
  max_workers, \* scan: the argument max_workers of scan_subnet
  probe,       \* scan: per host suffix, the future of check_device: its stage,
               \*       the path check_device took and the state of its socket
  found,       \* scan: the list found of scan_subnet
  scanPc,      \* scan: "idle", "submitting", "collecting" or "done"
  dPc,         \* discovery: "idle", "sending", "listening" or "done"
  dSock,       \* discovery: the UDP socket, "none", "open" or "closed"
  sendRound,   \* discovery: the value of i in "for i in range(5)"
  sendAddr,    \* discovery: how many addresses of the round have been tried
  sendLog,     \* discovery: per round and address, the sendto attempts made
  lastSend,    \* discovery: how the last sendto ended, "ok" or "failed"
  timeout,     \* discovery: the argument timeout, in seconds
  elapsed,     \* discovery: time.time() - start_time, in seconds
  rx,          \* discovery: how the last recvfrom ended
  received,    \* discovery: the <<address, length>> of the datagrams received
  discovered,  \* discovery: the set discovered, in insertion order
  dResult,     \* discovery: what discover_devices returned
  local_ip,    \* subnet: what the local-IP detection gives (or raises)
  subnet,      \* subnet: what get_local_subnet returned
  subnetPc,    \* subnet: "idle" or "done"
  cli          \* CLI: per run of kasa_api.py its arguments, how far main has
               \*      come, what it sent to the device and what it printed

codecVars == <<plaintext, wire, decoded, codecPc>>
deviceVars == <<child_id, info, sent, result, op>>
scanVars == <<scanStart, scanEnd, max_workers, probe, found, scanPc>>
discVars == <<dPc, dSock, sendRound, sendAddr, sendLog, lastSend, timeout,
              elapsed, rx, received, discovered, dResult>>
subnetVars == <<local_ip, subnet, subnetPc>>
netVars == <<scanVars, discVars, subnetVars>>
cliVars == <<cli>>
vars == <<plaintext, wire, decoded, codecPc, child_id, info, sent, result, op,
          scanStart, scanEnd, max_workers, probe, found, scanPc,
          dPc, dSock, sendRound, sendAddr, sendLog, lastSend, timeout,
          elapsed, rx, received, discovered, dResult,
          local_ip, subnet, subnetPc, cli>>

\* the scan, the discovery and the subnet detection before they are called
InitScanIdle ==
  /\ scanStart = 1
  /\ scanEnd = 0
  /\ max_workers = 1
  /\ probe = <<>>
  /\ found = <<>>
  /\ scanPc = "idle"

InitDiscIdle ==
  /\ dPc = "idle"
  /\ dSock = "none"
  /\ sendRound = 0
  /\ sendAddr = 0
  /\ sendLog = <<>>
  /\ lastSend = "ok"
  /\ timeout = 0
  /\ elapsed = 0
  /\ rx = [kind |-> "none"]
  /\ received = {}
  /\ discovered = <<>>
  /\ dResult = <<>>

InitSubnetIdle ==
  /\ local_ip = [raised |-> "OSError"]
  /\ subnet = <<>>
  /\ subnetPc = "idle"

InitNetIdle == InitScanIdle /\ InitDiscIdle /\ InitSubnetIdle
\* no run of kasa_api.py
InitCliIdle == cli = <<>>

\* ============================================================== the codec

\* Python's a ^ b on non-negative integers
RECURSIVE Xor(_, _)
Xor(a, b) ==
  IF a = 0 THEN b
  ELSE IF b = 0 THEN a
  ELSE (((a % 2) + (b % 2)) % 2) + 2 * Xor(a \div 2, b \div 2)

\* struct.pack(">I", n): four bytes, most significant first
PackBE32(n) ==
  << (n \div 16777216) % 256, (n \div 65536) % 256, (n \div 256) % 256, n % 256 >>

\* a mutant of the key feedback: the key advances from the plaintext
RECURSIVE EncryptLoopPlainKey(_, _, _)
EncryptLoopPlainKey(string, key, out) ==
  IF string = <<>> THEN [ret |-> out]
  ELSE LET a == Xor(key, Head(string))
       IN IF a > 255 THEN [raised |-> "ValueError"]
          ELSE EncryptLoopPlainKey(Tail(string), Head(string), Append(out, a))

\* the loop of encrypt: state is the key and the bytes emitted so far; the
\* outcome is [ret |-> bytes], or [raised |-> "ValueError"] because bytes([a])
\* raises when a is not in range(256)
RECURSIVE EncryptLoop(_, _, _)
EncryptLoop(string, key, out) ==
  IF string = <<>> THEN [ret |-> out]
  ELSE LET a == Xor(key, Head(string))
       IN IF a > 255 THEN [raised |-> "ValueError"]
          ELSE EncryptLoop(Tail(string), a, Append(out, a))

\* encrypt(string): the length header followed by the body
encrypt(string) == EncryptLoop(string, InitialKey, PackBE32(Len(string)))

\* a mutant of decrypt: the key advances from the decoded output
RECURSIVE DecryptLoopOutputKey(_, _, _)
DecryptLoopOutputKey(data, key, out) ==
  IF data = <<>> THEN out
  ELSE LET a == Xor(key, Head(data))
       IN DecryptLoopOutputKey(Tail(data), a, Append(out, a))

\* the loop of decrypt: the key advances from the ciphertext byte
RECURSIVE DecryptLoop(_, _, _)
DecryptLoop(data, key, out) ==
  IF data = <<>> THEN out
  ELSE LET a == Xor(key, Head(data))
       IN DecryptLoop(Tail(data), Head(data), Append(out, a))

decrypt(data) == DecryptLoop(data, InitialKey, <<>>)

\* data[4:]
DropHeader(data) == SubSeq(data, 5, Len(data))

Raised(v) == "raised" \in DOMAIN v

\* ord values the plaintexts are drawn from: NUL, SOH, '{', the seed itself,
\* 0xFF, and U+0100 (outside range(256))
CharSample == {0, 1, 123, 171, 255, 256}

RECURSIVE SeqsUpTo(_, _)
SeqsUpTo(S, n) ==
  IF n = 0 THEN {<<>>}
  ELSE LET shorter == SeqsUpTo(S, n - 1)
       IN shorter \cup {Append(s, x) : s \in {t \in shorter : Len(t) = n - 1}, x \in S}

Plaintexts == SeqsUpTo(CharSample, MaxLen)

InitCodecVars ==
  /\ plaintext = <<>>
  /\ wire = [ret |-> <<>>]
  /\ decoded = <<>>
  /\ codecPc = "idle"

\* a call encrypt(s)
Encrypt ==
  \E s \in Plaintexts :
    /\ plaintext' = s
    /\ wire' = encrypt(s)
    /\ decoded' = <<>>
    /\ codecPc' = "encrypted"
    /\ UNCHANGED <<deviceVars, netVars, cliVars>>

\* a call decrypt(wire[4:]) on what encrypt returned (network_scan.py:51)
Decrypt ==
  /\ codecPc = "encrypted"
  /\ ~Raised(wire)
  /\ decoded' = decrypt(DropHeader(wire.ret))
  /\ codecPc' = "decrypted"
  /\ UNCHANGED <<plaintext, wire>>
  /\ UNCHANGED <<deviceVars, netVars, cliVars>>

InitDeviceIdle ==
  /\ child_id = <<>>
  /\ info = <<>>
  /\ sent = <<>>
  /\ result = <<>>
  /\ op = "new"

InitCodec == InitCodecVars /\ InitDeviceIdle /\ InitNetIdle /\ InitCliIdle
NextCodec == Encrypt \/ Decrypt
SpecCodec == InitCodec /\ [][NextCodec]_vars


\* ======================================================= the device model

\* JSON values that are not objects
JNull == [py_type |-> "NoneType"]
JNum == [py_type |-> "int", value |-> 5]
JStr == [py_type |-> "str", value |-> "x"]
JList(items) == [py_type |-> "list", items |-> items]

IsDict(v) == "py_type" \notin DOMAIN v
IsList(v) == ~IsDict(v) /\ v.py_type = "list"

\* d.get(k, default) on a dict
Get(d, k, default) == IF k \in DOMAIN d THEN d[k] ELSE default

\* d.get(k) on a dict: <<>> is None
GetOpt(d, k) == IF k \in DOMAIN d THEN <<d[k]>> ELSE <<>>

\* the truth value of an optional string: None and "" are false
Truthy(s) == s /= <<>> /\ s[1] /= ""

\* a mutant of _wrap_command: the context replaces the command
WrapReplacing(cid, command) ==
  IF Truthy(cid) THEN [context |-> [child_ids |-> <<cid[1]>>]] ELSE command

\* KasaDevice._wrap_command: {"context": {"child_ids": [child_id]}, **command}
\* (the keys of command win over the context key)
_wrap_command(cid, command) ==
  IF Truthy(cid)
  THEN command @@ [context |-> [child_ids |-> <<cid[1]>>]]
  ELSE command

SetRelayCommand(state) == [system |-> [set_relay_state |-> [state |-> state]]]
GetSysinfoCommand == [system |-> [get_sysinfo |-> <<>>]]

\* a mutant of set_led: the caller's polarity goes on the wire unchanged
SetLedCommandDirect(state) ==
  [system |-> [set_led_off |-> [off |-> IF state THEN 1 ELSE 0]]]

\* the command of set_led: "off" is 0 to light the LED
SetLedCommand(state) ==
  [system |-> [set_led_off |-> [off |-> IF state THEN 0 ELSE 1]]]

\* what the two except KeyError clauses return
RelayParseError == [error |-> <<"Could not parse relay state from response">>]
ChildrenParseError == [error |-> <<"Could not parse children from response">>]
\* f"Child ID {self.child_id} not found"
ChildNotFound(cid) == [error |-> <<"Child ID ", cid[1], " not found">>]

\* a mutant of OnOff: every non-zero state counts as on
OnOffNonZero(state) == IF state /= 0 THEN "on" ELSE "off"

\* "on" if state == 1 else "off"
OnOff(state) == IF state = 1 THEN "on" ELSE "off"

\* "k" in v: a key test on a dict; on the str "x" a substring test and on a
\* list an element test, both false for the values modelled here; None and an
\* int are not iterable (TypeError, see CanContain)
CanContain(v) == IsDict(v) \/ v.py_type \in {"str", "list"}
Contains(k, v) == IsDict(v) /\ k \in DOMAIN v

\* for child in v: a list yields its items, the str "x" yields the str "x";
\* None and an int are not iterable (TypeError); a dict is not among the
\* values "children" takes here
Iterable(v) == ~IsDict(v) /\ v.py_type \in {"str", "list"}
Items(v) == IF v.py_type = "list" THEN v.items ELSE <<v>>

\* the entry get_state returns for the matching child (kasa_controller.py:63-69)
ChildState(child, cid) ==
  LET state == Get(child, "state", 0)
  IN [state |-> OnOff(state),
      relay_state |-> state,
      outlet_id |-> cid[1],
      outlet_alias |-> Get(child, "alias", "")]

\* a mutant of the search: the last matching child wins
RECURSIVE FindLastChild(_, _)
FindLastChild(items, cid) ==
  IF items = <<>> THEN ChildNotFound(cid)
  ELSE LET child == items[Len(items)]
       IN IF ~IsDict(child) THEN [raised |-> "AttributeError"]
          ELSE IF GetOpt(child, "id") = cid THEN ChildState(child, cid)
          ELSE FindLastChild(SubSeq(items, 1, Len(items) - 1), cid)

\* for child in children: if child.get("id") == self.child_id: return {...}
\* and, after the loop, the not-found error; child.get on a non-dict raises
RECURSIVE FindChild(_, _)
FindChild(items, cid) ==
  IF items = <<>> THEN ChildNotFound(cid)
  ELSE LET child == Head(items)
       IN IF ~IsDict(child) THEN [raised |-> "AttributeError"]
          ELSE IF GetOpt(child, "id") = cid THEN ChildState(child, cid)
          ELSE FindChild(Tail(items), cid)

\* a mutant of the not-found exit: the first outlet stands in for a missing id
FindChildOrFirst(items, cid) ==
  LET hit == FindChild(items, cid)
  IN IF "error" \in DOMAIN hit /\ items /= <<>> /\ IsDict(Head(items))
     THEN ChildState(Head(items), cid)
     ELSE hit

\* the search as get_state calls it
FindRequestedChild(items, cid) == FindChild(items, cid)

\* one entry of the outlet list of get_state (kasa_controller.py:75-81)
OutletEntry(child, n) ==
  LET state == Get(child, "state", 0)
  IN [id |-> GetOpt(child, "id"),
      alias |-> IF "alias" \in DOMAIN child THEN <<child.alias>>
                ELSE <<"Outlet ", n + 1>>,
      state |-> OnOff(state),
      relay_state |-> state]

\* a mutant of the outlet loop: entries are prepended
RECURSIVE OutletStatesReversed(_, _)
OutletStatesReversed(items, acc) ==
  IF items = <<>> THEN [ret |-> acc]
  ELSE IF ~IsDict(Head(items)) THEN [raised |-> "AttributeError"]
  ELSE OutletStatesReversed(Tail(items),
                            <<OutletEntry(Head(items), Len(acc))>> \o acc)

\* the loop building outlet_states: [ret |-> list] or the exception raised
RECURSIVE OutletStates(_, _)
OutletStates(items, acc) ==
  IF items = <<>> THEN [ret |-> acc]
  ELSE IF ~IsDict(Head(items)) THEN [raised |-> "AttributeError"]
  ELSE OutletStates(Tail(items), Append(acc, OutletEntry(Head(items), Len(acc))))

\* get_state from "sysinfo = ..." on, for a sysinfo value that was found
StateOfSysinfo(cid, sysinfo) ==
  IF ~CanContain(sysinfo) THEN [raised |-> "TypeError"]
  ELSE IF Contains("children", sysinfo) THEN
    LET children == sysinfo.children
    IN IF ~Iterable(children) THEN [raised |-> "TypeError"]
       ELSE IF Truthy(cid) THEN FindRequestedChild(Items(children), cid)
       ELSE LET outlets == OutletStates(Items(children), <<>>)
            IN IF "raised" \in DOMAIN outlets THEN outlets
               ELSE [is_strip |-> TRUE,
                     outlet_count |-> Len(Items(children)),
                     outlets |-> outlets.ret,
                     model |-> Get(sysinfo, "model", ""),
                     alias |-> Get(sysinfo, "alias", "")]
  ELSE IF ~IsDict(sysinfo) THEN [raised |-> "TypeError"]
  ELSE IF "relay_state" \notin DOMAIN sysinfo THEN RelayParseError
  ELSE [state |-> OnOff(sysinfo.relay_state),
        relay_state |-> sysinfo.relay_state]

\* KasaDevice.get_state, given the value get_info returned
get_state(cid, inf) ==
  IF "error" \in DOMAIN inf THEN inf
  ELSE IF "system" \notin DOMAIN inf THEN RelayParseError
  ELSE IF ~IsDict(inf.system) THEN [raised |-> "TypeError"]
  ELSE IF "get_sysinfo" \notin DOMAIN inf.system THEN RelayParseError
  ELSE StateOfSysinfo(cid, inf.system.get_sysinfo)

\* one entry of the list of get_children (kasa_controller.py:108-114)
ChildEntry(child, idx) ==
  [id |-> GetOpt(child, "id"),
   index |-> idx,
   alias |-> IF "alias" \in DOMAIN child THEN <<child.alias>>
             ELSE <<"Outlet ", idx + 1>>,
   state |-> OnOff(Get(child, "state", 0)),
   relay_state |-> Get(child, "state", 0)]

\* a mutant of the enumeration: indexes count from 1
RECURSIVE ChildEntriesFromOne(_, _)
ChildEntriesFromOne(items, acc) ==
  IF items = <<>> THEN [ret |-> acc]
  ELSE IF ~IsDict(Head(items)) THEN [raised |-> "AttributeError"]
  ELSE ChildEntriesFromOne(Tail(items),
                           Append(acc, ChildEntry(Head(items), Len(acc) + 1)))

\* for idx, child in enumerate(sysinfo["children"]): children.append({...})
RECURSIVE ChildEntries(_, _)
ChildEntries(items, acc) ==
  IF items = <<>> THEN [ret |-> acc]
  ELSE IF ~IsDict(Head(items)) THEN [raised |-> "AttributeError"]
  ELSE ChildEntries(Tail(items), Append(acc, ChildEntry(Head(items), Len(acc))))

\* get_children from "sysinfo = ..." on, for a sysinfo value that was found
ChildrenOfSysinfo(sysinfo) ==
  IF ~CanContain(sysinfo) THEN [raised |-> "TypeError"]
  ELSE IF ~Contains("children", sysinfo)
  THEN [is_strip |-> FALSE, children |-> <<>>]
  ELSE IF ~Iterable(sysinfo.children) THEN [raised |-> "TypeError"]
  ELSE LET entries == ChildEntries(Items(sysinfo.children), <<>>)
       IN IF "raised" \in DOMAIN entries THEN entries
          ELSE [is_strip |-> TRUE,
                model |-> Get(sysinfo, "model", ""),
                alias |-> Get(sysinfo, "alias", ""),
                child_num |-> Get(sysinfo, "child_num", Len(entries.ret)),
                children |-> entries.ret]

\* KasaDevice.get_children, given the value get_info returned
get_children(inf) ==
  IF "error" \in DOMAIN inf THEN inf
  ELSE IF "system" \notin DOMAIN inf THEN ChildrenParseError
  ELSE IF ~IsDict(inf.system) THEN [raised |-> "TypeError"]
  ELSE IF "get_sysinfo" \notin DOMAIN inf.system THEN ChildrenParseError
  ELSE ChildrenOfSysinfo(inf.system.get_sysinfo)

\* ------------------------------------------------- responses of the device

\* the set {<<>>} \cup {k :> v : v \in vals}: a dict with the key k or without
OptKey(k, vals) == {<<>>} \cup {k :> v : v \in vals}

\* child ids a strip reports, and the ids a handle is constructed with
\* (<<>> is None; "Z" is on no strip)
ChildIdValues == {"", "A", "B"}
HandleChildIds == {<<>>, <<"">>, <<"A">>, <<"B">>, <<"Z">>}

\* the entries of a children list: every dict over id, state and alias, and
\* one entry that is not a dict
ChildDicts ==
  {i @@ s @@ a : i \in OptKey("id", ChildIdValues),
                 s \in OptKey("state", {0, 1}),
                 a \in OptKey("alias", {"Lamp"})}
ChildEntryValues == ChildDicts \cup {JNum}

\* the rest of a sysinfo dict: model, alias and child_num, present or not
SysinfoMeta == {<<>>, [model |-> "HS300", alias |-> "Strip", child_num |-> 6]}

\* the values of "children": a list of up to MaxChildren entries, or not a list
ChildrenValues ==
  {JList(items) : items \in SeqsUpTo(ChildEntryValues, MaxChildren)}
    \cup {JNull, JNum, JStr}

\* the sysinfo dicts: a strip (children, no relay_state) or a plug
SysinfoDicts ==
  {("children" :> c) @@ m : c \in ChildrenValues, m \in SysinfoMeta}
    \cup {r @@ m : r \in OptKey("relay_state", {0, 1, 2}), m \in SysinfoMeta}

NonDicts == {JNull, JNum, JStr, JList(<<>>)}

\* the error result of send_command (tplink_protocol.send_command)
TransportError == [error |-> <<"Connection failed">>]
\* the reply of a device to a set command: err_code 0 under every module and
\* action of the command
SetReply(command) ==
  [m \in DOMAIN command \ {"context"} |->
     [a \in DOMAIN command[m] |-> [err_code |-> 0]]]

\* what send_command can return for get_sysinfo
InfoValues ==
  {TransportError, <<>>, [system |-> <<>>]}
    \cup {[system |-> v] : v \in NonDicts}
    \cup {[system |-> [get_sysinfo |-> v]] : v \in NonDicts \cup SysinfoDicts}

\* send_command(ip, port, command): the device at ip answers get_sysinfo with
\* info, and any other command with its reply, unless the exchange fails
send_command(inf, command) ==
  IF "error" \in DOMAIN inf THEN inf
  ELSE IF command = GetSysinfoCommand THEN inf
  ELSE SetReply(command)

\* the commands of get_emeter_realtime, get_cloud_info and scan_wifi
EmeterCommand == [emeter |-> [get_realtime |-> <<>>]]
CloudInfoCommand == [cnCloud |-> [get_info |-> <<>>]]
ScanWifiCommand == [netif |-> [get_scaninfo |-> [refresh |-> 1]]]

\* the command of reboot(delay)
RebootCommand(delay) == [system |-> [reboot |-> [delay |-> delay]]]

\* the delays reboot is called with: 1 is the default
RebootDelays == {0, 1, 5}

\* a command that sets the relay
IsRelayCommand(c) == "system" \in DOMAIN c /\ "set_relay_state" \in DOMAIN c.system

\* the device after a set_relay_state command reached it: a plug takes the
\* state, a strip gives it to the children named by the context
ApplyRelay(inf, command) ==
  LET state == command.system.set_relay_state.state
      named == IF "context" \in DOMAIN command
               THEN {command.context.child_ids[i] :
                       i \in 1..Len(command.context.child_ids)}
               ELSE {}
      Switch(c) == IF IsDict(c) /\ "id" \in DOMAIN c /\ c.id \in named
                   THEN ("state" :> state) @@ c ELSE c
  IN IF ~("system" \in DOMAIN inf /\ IsDict(inf.system)
            /\ "get_sysinfo" \in DOMAIN inf.system
            /\ IsDict(inf.system.get_sysinfo))
     THEN inf
     ELSE LET sysinfo == inf.system.get_sysinfo
          IN IF "children" \in DOMAIN sysinfo
             THEN IF IsList(sysinfo.children)
                  THEN [system |-> [get_sysinfo |->
                          ("children" :>
                             JList([i \in 1..Len(sysinfo.children.items) |->
                                      Switch(sysinfo.children.items[i])]))
                            @@ sysinfo]]
                  ELSE inf
             ELSE IF "relay_state" \in DOMAIN sysinfo
             THEN [system |-> [get_sysinfo |-> ("relay_state" :> state) @@ sysinfo]]
             ELSE inf

\* what the device answers once a reboot command reached it: as before when
\* it is up again, nothing while it restarts
AfterReboot(inf) == {inf, TransportError}

\* ---------------------------------------------------------- the operations

\* KasaDevice(ip, child_id=c) facing a device that answers get_sysinfo with i
InitDeviceVars ==
  /\ child_id \in HandleChildIds
  /\ info \in InfoValues
  /\ sent = <<>>
  /\ result = <<>>
  /\ op = "new"

TurnOn ==
  LET command == _wrap_command(child_id, SetRelayCommand(1))
  IN /\ sent' = <<command>>
     /\ result' = send_command(info, command)
     /\ op' = "turn_on"
     /\ info' = ApplyRelay(info, command)
     /\ UNCHANGED child_id
     /\ UNCHANGED <<codecVars, netVars, cliVars>>

TurnOff ==
  LET command == _wrap_command(child_id, SetRelayCommand(0))
  IN /\ sent' = <<command>>
     /\ result' = send_command(info, command)
     /\ op' = "turn_off"
     /\ info' = ApplyRelay(info, command)
     /\ UNCHANGED child_id
     /\ UNCHANGED <<codecVars, netVars, cliVars>>

GetInfo ==
  /\ sent' = <<GetSysinfoCommand>>
  /\ result' = send_command(info, GetSysinfoCommand)
  /\ op' = "get_info"
  /\ UNCHANGED <<child_id, info>>
  /\ UNCHANGED <<codecVars, netVars, cliVars>>

GetState ==
  /\ sent' = <<GetSysinfoCommand>>
  /\ result' = get_state(child_id, send_command(info, GetSysinfoCommand))
  /\ op' = "get_state"
  /\ UNCHANGED <<child_id, info>>
  /\ UNCHANGED <<codecVars, netVars, cliVars>>

GetChildren ==
  /\ sent' = <<GetSysinfoCommand>>
  /\ result' = get_children(send_command(info, GetSysinfoCommand))
  /\ op' = "get_children"
  /\ UNCHANGED <<child_id, info>>
  /\ UNCHANGED <<codecVars, netVars, cliVars>>

SetLed ==
  \E state \in BOOLEAN :
    LET command == SetLedCommand(state)
    IN /\ sent' = <<command>>
       /\ result' = send_command(info, command)
       /\ op' = IF state THEN "set_led_on" ELSE "set_led_off"
       /\ UNCHANGED <<child_id, info>>
       /\ UNCHANGED <<codecVars, netVars, cliVars>>

GetEmeterRealtime ==
  /\ sent' = <<EmeterCommand>>
  /\ result' = send_command(info, EmeterCommand)
  /\ op' = "get_emeter_realtime"
  /\ UNCHANGED <<child_id, info>>
  /\ UNCHANGED <<codecVars, netVars, cliVars>>

\* reboot(delay): the reply of send_command is returned; the device restarts
Reboot ==
  \E delay \in RebootDelays :
    LET command == RebootCommand(delay)
    IN /\ sent' = <<command>>
       /\ result' = send_command(info, command)
       /\ op' = "reboot"
       /\ info' \in AfterReboot(info)
       /\ UNCHANGED child_id
       /\ UNCHANGED <<codecVars, netVars, cliVars>>

GetCloudInfo ==
  /\ sent' = <<CloudInfoCommand>>
  /\ result' = send_command(info, CloudInfoCommand)
  /\ op' = "get_cloud_info"
  /\ UNCHANGED <<child_id, info>>
  /\ UNCHANGED <<codecVars, netVars, cliVars>>

ScanWifi ==
  /\ sent' = <<ScanWifiCommand>>
  /\ result' = send_command(info, ScanWifiCommand)
  /\ op' = "scan_wifi"
  /\ UNCHANGED <<child_id, info>>
  /\ UNCHANGED <<codecVars, netVars, cliVars>>

InitDevice == InitCodecVars /\ InitDeviceVars /\ InitNetIdle /\ InitCliIdle
NextDevice ==
  \/ TurnOn \/ TurnOff \/ GetInfo \/ GetState \/ GetChildren \/ SetLed
  \/ GetEmeterRealtime \/ Reboot \/ GetCloudInfo \/ ScanWifi
SpecDevice == InitDevice /\ [][NextDevice]_vars


\* ============================================ the CLI: on, off and toggle

\* the runs of kasa_api.py that go on at the same time against one device
Runs == {"first", "second"}

\* sys.argv of a run: the command, whether the ip is there, and the child id
\* (sys.argv[3] if len(sys.argv) > 3 else None)
CliChildIds == {<<>>, <<"">>, <<"A">>, <<"Z">>}
CliArgvs ==
  {[command |-> c, ip |-> FALSE, child_id |-> <<>>] : c \in {"on", "off", "toggle"}}
    \cup {[command |-> c, ip |-> TRUE, child_id |-> k] :
            c \in {"on", "off", "toggle"}, k \in CliChildIds}

\* what the device answers get_sysinfo with when the runs start: plugs,
\* strips, and answers get_state cannot read
CliChildLists ==
  {<<>>,
   <<[id |-> "A", state |-> 1, alias |-> "Lamp"]>>,
   <<[id |-> "A", state |-> 0], [id |-> "B", state |-> 1]>>,
   <<[id |-> "A"]>>,
   <<JNum>>}
CliInfoValues ==
  {<<>>, [system |-> JNum], [system |-> [get_sysinfo |-> JNull]]}
    \cup {[system |-> [get_sysinfo |-> r]] : r \in OptKey("relay_state", {0, 1, 2})}
    \cup {[system |-> [get_sysinfo |-> ("children" :> JList(items))]] :
            items \in CliChildLists}

\* what main wrote to stdout with print(json.dumps(v)), and the exit status
Printed(v, code) == [stdout |-> v, exit |-> code]

\* {"error": str(e)} of the handler "except Exception as e" of main
ErrorOf(e) == [error |-> <<[str_of |-> e.raised]>>]

\* {"error": "IP address required"}
IpRequired == [error |-> <<"IP address required">>]

\* one exchange of send_command with the device: it answers, or the
\* exchange fails
Exchange(inf, command, reached) ==
  IF reached THEN send_command(inf, command) ELSE TransportError

\* a mutant of the choice of toggle: the relay is set to the state it has
ToggleChoiceSame(current) ==
  IF "relay_state" \in DOMAIN current /\ current.relay_state = 1
  THEN "turn_on" ELSE "turn_off"

\* kasa_api.py:114-117: current.get("relay_state") == 1 chooses turn_off
ToggleChoice(current) ==
  IF "relay_state" \in DOMAIN current /\ current.relay_state = 1
  THEN "turn_off" ELSE "turn_on"

\* the command of device.turn_off() or device.turn_on()
RelayCommandOf(cid, choice) ==
  _wrap_command(cid, SetRelayCommand(IF choice = "turn_off" THEN 0 ELSE 1))

\* a run before main has done anything
NewRun(argv) ==
  [argv |-> argv, pc |-> "start", current |-> <<>>, reply |-> <<>>,
   sent |-> <<>>, out |-> <<>>]

\* the run r has printed v and ended with the exit status
Exits(r, v, code) == [r EXCEPT !.pc = "exit", !.out = Printed(v, code)]

InitCliVars ==
  /\ info \in CliInfoValues
  /\ cli \in [Runs -> {NewRun(a) : a \in CliArgvs}]
  /\ child_id = <<>>
  /\ sent = <<>>
  /\ result = <<>>
  /\ op = "new"

\* "if len(sys.argv) < 3": on, off and toggle without an ip print the error
\* and exit with status 1
RequireIp(r) ==
  /\ cli[r].pc = "start"
  /\ ~cli[r].argv.ip
  /\ cli' = [cli EXCEPT ![r] = Exits(@, IpRequired, 1)]
  /\ UNCHANGED deviceVars
  /\ UNCHANGED <<codecVars, netVars>>

\* toggle, lines 105-112: current = device.get_state(); an error result is
\* printed and ends the run with status 1; an exception of get_state
\* reaches "except Exception" of main
ToggleQuery(r) ==
  /\ cli[r].pc = "start"
  /\ cli[r].argv.ip
  /\ cli[r].argv.command = "toggle"
  /\ \E reached \in BOOLEAN :
       LET current == get_state(cli[r].argv.child_id,
                                Exchange(info, GetSysinfoCommand, reached))
           asked == [cli[r] EXCEPT !.sent = <<GetSysinfoCommand>>,
                                   !.current = current]
       IN cli' = [cli EXCEPT ![r] =
                    IF Raised(current) THEN Exits(asked, ErrorOf(current), 1)
                    ELSE IF "error" \in DOMAIN current THEN Exits(asked, current, 1)
                    ELSE [asked EXCEPT !.pc = "queried"]]
  /\ UNCHANGED deviceVars
  /\ UNCHANGED <<codecVars, netVars>>

\* the relay command of a run reaches the device or the exchange fails
SendRelay(r, choice, reached) ==
  LET command == RelayCommandOf(cli[r].argv.child_id, choice)
  IN /\ cli' = [cli EXCEPT ![r] =
                  [@ EXCEPT !.pc = "switched",
                            !.sent = Append(@, command),
                            !.reply = Exchange(info, command, reached)]]
     /\ info' = IF reached THEN ApplyRelay(info, command) ELSE info

\* toggle, lines 114-117: turn_off or turn_on, by the state queried
ToggleSwitch(r) ==
  /\ cli[r].pc = "queried"
  /\ \E reached \in BOOLEAN : SendRelay(r, ToggleChoice(cli[r].current), reached)
  /\ UNCHANGED <<child_id, sent, result, op>>
  /\ UNCHANGED <<codecVars, netVars>>

\* on and off, lines 79-82 and 92-95: device.turn_on() or device.turn_off()
TurnOnOff(r) ==
  /\ cli[r].pc = "start"
  /\ cli[r].argv.ip
  /\ cli[r].argv.command \in {"on", "off"}
  /\ \E reached \in BOOLEAN :
       SendRelay(r, IF cli[r].argv.command = "on" THEN "turn_on" ELSE "turn_off",
                 reached)
  /\ UNCHANGED <<child_id, sent, result, op>>
  /\ UNCHANGED <<codecVars, netVars>>

\* on, off and toggle end alike (lines 84-85, 97-98, 119-120): state =
\* device.get_state(), then {"result": result, "state": state} is printed
ReportState(r) ==
  /\ cli[r].pc = "switched"
  /\ \E reached \in BOOLEAN :
       LET state == get_state(cli[r].argv.child_id,
                              Exchange(info, GetSysinfoCommand, reached))
           asked == [cli[r] EXCEPT !.sent = Append(@, GetSysinfoCommand)]
       IN cli' = [cli EXCEPT ![r] =
                    IF Raised(state) THEN Exits(asked, ErrorOf(state), 1)
                    ELSE Exits(asked, [result |-> cli[r].reply, state |-> state], 0)]
  /\ UNCHANGED deviceVars
  /\ UNCHANGED <<codecVars, netVars>>

InitCli == InitCodecVars /\ InitCliVars /\ InitNetIdle
NextCli ==
  \E r \in Runs :
    \/ RequireIp(r)
    \/ ToggleQuery(r)
    \/ ToggleSwitch(r)
    \/ TurnOnOff(r)
    \/ ReportState(r)
SpecCli == InitCli /\ [][NextCli]_vars


\* ------------------------------------------------------------ codec claims

AllBytes(s) == \A i \in 1..Len(s) : s[i] \in 0..255

\* C1: for every plaintext whose characters have codes 0..255, the empty one
\* included, decrypt(encrypt(x)[4:]) = x.
C1_RoundTrip ==
  (codecPc = "decrypted" /\ AllBytes(plaintext)) => decoded = plaintext

\* C1 witness: a plaintext of at least two characters went through both calls
C1_Witness ==
  /\ codecPc = "decrypted"
  /\ Len(plaintext) >= 2
  /\ plaintext[1] /= plaintext[2]
  /\ decoded = plaintext

\* C2: encrypt of an n-byte plaintext is 4 + n bytes: the big-endian length n,
\* then body[i] = key_i XOR plaintext[i] with key_0 = 171 and key_{i+1} =
\* body[i]; the empty plaintext gives the four zero bytes alone.
C2_EncryptShape ==
  (codecPc = "encrypted" /\ AllBytes(plaintext)) =>
    /\ ~Raised(wire)
    /\ LET n == Len(plaintext)
           out == wire.ret
           body == DropHeader(wire.ret)
       IN /\ Len(out) = 4 + n
          /\ out[1] * 16777216 + out[2] * 65536 + out[3] * 256 + out[4] = n
          /\ \A i \in 1..4 : out[i] \in 0..255
          /\ Len(body) = n
          /\ \A i \in 1..n :
               body[i] = Xor(IF i = 1 THEN 171 ELSE body[i - 1], plaintext[i])
          /\ (n = 0 => out = <<0, 0, 0, 0>>)

\* C2 witness: a plaintext of two or more characters has been encrypted
C2_Witness ==
  /\ codecPc = "encrypted"
  /\ ~Raised(wire)
  /\ Len(plaintext) >= 2
  /\ Len(wire.ret) = 4 + Len(plaintext)

\* ----------------------------------------------------------- device claims

\* the response carries system.get_sysinfo as a mapping
HasSysinfoDict(inf) ==
  /\ "error" \notin DOMAIN inf
  /\ "system" \in DOMAIN inf
  /\ IsDict(inf.system)
  /\ "get_sysinfo" \in DOMAIN inf.system
  /\ IsDict(inf.system.get_sysinfo)

\* the response carries a children sequence: a list of child mappings
HasChildrenSeq(inf) ==
  /\ HasSysinfoDict(inf)
  /\ "children" \in DOMAIN inf.system.get_sysinfo
  /\ IsList(inf.system.get_sysinfo.children)
  /\ \A k \in 1..Len(inf.system.get_sysinfo.children.items) :
       IsDict(inf.system.get_sysinfo.children.items[k])

\* the response is a system-info response without a children key
HasNoChildren(inf) ==
  /\ HasSysinfoDict(inf)
  /\ "children" \notin DOMAIN inf.system.get_sysinfo

ChildrenOf(inf) == inf.system.get_sysinfo.children.items

\* the positions of the children whose id is the one requested
Matches(inf, cid) ==
  {k \in 1..Len(ChildrenOf(inf)) : GetOpt(ChildrenOf(inf)[k], "id") = cid}

FirstMatch(inf, cid) ==
  CHOOSE k \in Matches(inf, cid) : \A j \in Matches(inf, cid) : k <= j

\* result is the state of child c, reported for the requested id
IsStateOfChild(res, c, cid) ==
  /\ DOMAIN res = {"state", "relay_state", "outlet_id", "outlet_alias"}
  /\ res.relay_state = Get(c, "state", 0)
  /\ res.state = (IF Get(c, "state", 0) = 1 THEN "on" ELSE "off")
  /\ res.outlet_id = cid[1]
  /\ res.outlet_alias = Get(c, "alias", "")

\* C3 as stated: whenever the response carries a children sequence and the
\* handle's child_id (any string, the empty one included) equals the id of
\* some child, get_state returns the state of the first such child.
C3_AnyChildId ==
  (op = "get_state" /\ HasChildrenSeq(info) /\ child_id /= <<>>
     /\ Matches(info, child_id) /= {}) =>
    IsStateOfChild(result, ChildrenOf(info)[FirstMatch(info, child_id)], child_id)

\* C3 amended: whenever the response carries a children sequence and the
\* handle's child_id is a non-empty string equal to the id of some child,
\* get_state returns the result for the first such child in response order:
\* state "on" exactly when that child's state is 1, relay_state that child's
\* state (0 when it has none), outlet_id the requested id, outlet_alias that
\* child's alias ("" when it has none).
C3_FirstMatch ==
  (op = "get_state" /\ HasChildrenSeq(info) /\ Truthy(child_id)
     /\ Matches(info, child_id) /= {}) =>
    IsStateOfChild(result, ChildrenOf(info)[FirstMatch(info, child_id)], child_id)

\* C3 witness: two children share the requested id with different states and
\* get_state reported the first
C3_Witness ==
  /\ op = "get_state"
  /\ HasChildrenSeq(info)
  /\ child_id = <<"B">>
  /\ Matches(info, child_id) = {1, 2}
  /\ Get(ChildrenOf(info)[1], "state", 0) = 0
  /\ Get(ChildrenOf(info)[2], "state", 0) = 1
  /\ "state" \in DOMAIN result
  /\ result.state = "off"

\* result is the not-found error mentioning the requested id
IsNotFound(res, cid) ==
  /\ DOMAIN res = {"error"}
  /\ \E i \in 1..Len(res.error) : res.error[i] = cid[1]

\* C4 as stated: whenever the response carries a children sequence and the
\* handle's child_id (any string, the empty one included) matches no child,
\* get_state returns a not-found error mentioning the id.
C4_AnyChildId ==
  (op = "get_state" /\ HasChildrenSeq(info) /\ child_id /= <<>>
     /\ Matches(info, child_id) = {}) =>
    IsNotFound(result, child_id)

\* C4 amended: whenever the response carries a children sequence and the
\* handle's child_id is a non-empty string that matches no child's id,
\* get_state returns a not-found error that mentions the requested id, and
\* no on/off state.
C4_NotFound ==
  (op = "get_state" /\ HasChildrenSeq(info) /\ Truthy(child_id)
     /\ Matches(info, child_id) = {}) =>
    (IsNotFound(result, child_id) /\ "state" \notin DOMAIN result)

\* C4 witness: a strip with outlets A and "" was asked for Z and get_state
\* answered with the error
C4_Witness ==
  /\ op = "get_state"
  /\ HasChildrenSeq(info)
  /\ child_id = <<"Z">>
  /\ Len(ChildrenOf(info)) = 2
  /\ Matches(info, <<"A">>) = {1}
  /\ "error" \in DOMAIN result

\* C5: whenever the response carries a children sequence and the handle has
\* no child_id (None, or the empty string), get_state returns an outlet list
\* with one entry per child in the order of the children sequence, each entry
\* carrying that child's id and its state as "on" (state 1) or "off".
C5_OutletList ==
  (op = "get_state" /\ HasChildrenSeq(info) /\ ~Truthy(child_id)) =>
    /\ "outlets" \in DOMAIN result
    /\ Len(result.outlets) = Len(ChildrenOf(info))
    /\ \A k \in 1..Len(ChildrenOf(info)) :
         /\ result.outlets[k].id = GetOpt(ChildrenOf(info)[k], "id")
         /\ result.outlets[k].state =
              (IF Get(ChildrenOf(info)[k], "state", 0) = 1 THEN "on" ELSE "off")

\* C5 witness: a handle without child_id got the two outlets A (on), B (off)
C5_Witness ==
  /\ op = "get_state"
  /\ child_id = <<>>
  /\ HasChildrenSeq(info)
  /\ Len(ChildrenOf(info)) = 2
  /\ "outlets" \in DOMAIN result
  /\ Len(result.outlets) = 2
  /\ result.outlets[1].id = <<"A">> /\ result.outlets[1].state = "on"
  /\ result.outlets[2].id = <<"B">> /\ result.outlets[2].state = "off"

\* an expected field is absent: system, get_sysinfo, or relay_state of a
\* sysinfo mapping without children
MissingField(inf) ==
  IF "system" \notin DOMAIN inf THEN "system"
  ELSE IF IsDict(inf.system) /\ "get_sysinfo" \notin DOMAIN inf.system
    THEN "get_sysinfo"
  ELSE IF HasNoChildren(inf) /\ "relay_state" \notin DOMAIN inf.system.get_sysinfo
    THEN "relay_state"
  ELSE "none"

FieldAbsent(inf) == "error" \notin DOMAIN inf /\ MissingField(inf) /= "none"

\* the field an error text names
FieldNamedBy(msg) ==
  IF msg = <<"Could not parse relay state from response">> THEN "relay_state"
  ELSE IF msg = <<"Could not parse children from response">> THEN "children"
  ELSE "none"

\* result is the relay state read from the sysinfo mapping
IsRelayState(res, sysinfo) ==
  /\ DOMAIN res = {"state", "relay_state"}
  /\ res.relay_state = sysinfo.relay_state
  /\ res.state = (IF sysinfo.relay_state = 1 THEN "on" ELSE "off")

\* C6 as stated: without a children key get_state reports relay_state, "on"
\* exactly when it is 1, and when relay_state, get_sysinfo or system is absent
\* it returns a parse error naming the field that is missing.
C6_NamesMissingField ==
  /\ (op = "get_state" /\ HasNoChildren(info) /\ ~FieldAbsent(info)) =>
       IsRelayState(result, info.system.get_sysinfo)
  /\ (op = "get_state" /\ FieldAbsent(info)) =>
       /\ DOMAIN result = {"error"}
       /\ FieldNamedBy(result.error) = MissingField(info)

\* C6 amended: when system.get_sysinfo is a mapping without a children key,
\* get_state reads relay_state directly under it and returns "on" exactly
\* when it is 1; when relay_state, get_sysinfo or system is absent it returns
\* the one parse error "Could not parse relay state from response", whichever
\* of the three fields is missing.
C6_RelayOrParseError ==
  /\ (op = "get_state" /\ HasNoChildren(info) /\ ~FieldAbsent(info)) =>
       IsRelayState(result, info.system.get_sysinfo)
  /\ (op = "get_state" /\ FieldAbsent(info)) =>
       /\ DOMAIN result = {"error"}
       /\ result.error = <<"Could not parse relay state from response">>

\* C6 witness: get_sysinfo is missing and get_state answered with the relay
\* state parse error
C6_Witness ==
  /\ op = "get_state"
  /\ MissingField(info) = "get_sysinfo"
  /\ "error" \in DOMAIN result
  /\ FieldNamedBy(result.error) = "relay_state"

\* C7: get_state and get_children always return a structured result: an error
\* result of get_info is returned unchanged, and for every decoded response
\* shape they return a result or an error object and never raise.
C7_NeverRaises ==
  (op \in {"get_state", "get_children"}) =>
    /\ "raised" \notin DOMAIN result
    /\ ("error" \in DOMAIN info => result = info)

\* C8 as stated: turn_on / turn_off of a handle whose child_id is set (any
\* string, the empty one included) send the relay command plus a context key
\* naming that child; a handle whose child_id is None sends it unchanged.
C8_AnyChildId ==
  (op \in {"turn_on", "turn_off"}) =>
    LET body == SetRelayCommand(IF op = "turn_on" THEN 1 ELSE 0)
    IN /\ Len(sent) = 1
       /\ child_id /= <<>> =>
            /\ DOMAIN sent[1] = {"system", "context"}
            /\ sent[1].system = body.system
            /\ sent[1].context = [child_ids |-> <<child_id[1]>>]
       /\ child_id = <<>> => sent[1] = body

\* C8 amended: context wrapping is additive: for a handle whose child_id is a
\* non-empty string the command sent by turn_on / turn_off holds the module
\* key system with its body unchanged (set_relay_state.state = 1 for on, 0 for
\* off) plus a sibling context key whose child_ids list holds exactly that id;
\* for a handle whose child_id is None or the empty string the command is
\* sent unchanged, without a context key.
C8_AdditiveContext ==
  (op \in {"turn_on", "turn_off"}) =>
    LET body == SetRelayCommand(IF op = "turn_on" THEN 1 ELSE 0)
    IN /\ Len(sent) = 1
       /\ Truthy(child_id) =>
            /\ DOMAIN sent[1] = {"system", "context"}
            /\ sent[1].system = body.system
            /\ sent[1].context = [child_ids |-> <<child_id[1]>>]
       /\ ~Truthy(child_id) => sent[1] = body

\* C8 witness: turn_off on outlet A sent the wrapped command
C8_Witness ==
  /\ op = "turn_off"
  /\ child_id = <<"A">>
  /\ sent = <<[context |-> [child_ids |-> <<"A">>],
              system |-> [set_relay_state |-> [state |-> 0]]]>>

\* C9: set_led(True) sends system.set_led_off.off = 0 and set_led(False)
\* sends off = 1, for every handle, and nothing else.
C9_LedPolarity ==
  (op \in {"set_led_on", "set_led_off"}) =>
    /\ Len(sent) = 1
    /\ DOMAIN sent[1] = {"system"}
    /\ DOMAIN sent[1].system = {"set_led_off"}
    /\ sent[1].system.set_led_off = [off |-> IF op = "set_led_on" THEN 0 ELSE 1]

\* C9 witness: set_led(True) on a handle with a child id sent off = 0
C9_Witness ==
  /\ op = "set_led_on"
  /\ child_id = <<"A">>
  /\ sent[1].system.set_led_off.off = 0

\* C10: get_children returns is_strip false when system.get_sysinfo has no
\* children key; when it carries a children sequence it returns one entry per
\* child in response order, the entry at position k (from 0) with index k and
\* that child's id, alias and state.
C10_Children ==
  /\ (op = "get_children" /\ HasNoChildren(info)) =>
       ("is_strip" \in DOMAIN result /\ result.is_strip = FALSE)
  /\ (op = "get_children" /\ HasChildrenSeq(info)) =>
       /\ "is_strip" \in DOMAIN result /\ result.is_strip = TRUE
       /\ Len(result.children) = Len(ChildrenOf(info))
       /\ \A k \in 1..Len(ChildrenOf(info)) :
            LET c == ChildrenOf(info)[k]
                e == result.children[k]
            IN /\ e.index = k - 1
               /\ e.id = GetOpt(c, "id")
               /\ ("alias" \in DOMAIN c => e.alias = <<c.alias>>)
               /\ e.relay_state = Get(c, "state", 0)
               /\ e.state = (IF Get(c, "state", 0) = 1 THEN "on" ELSE "off")

\* C10 witness: get_children listed outlets A and B with indexes 0 and 1
C10_Witness ==
  /\ op = "get_children"
  /\ HasChildrenSeq(info)
  /\ Len(ChildrenOf(info)) = 2
  /\ "children" \in DOMAIN result
  /\ Len(result.children) = 2
  /\ result.children[1].id = <<"A">> /\ result.children[1].index = 0
  /\ result.children[2].id = <<"B">> /\ result.children[2].index = 1

\* ======================================================== the subnet scan

\* the subnet string handed to scan_subnet, and f"{subnet}.{i}"
ScanSubnet == "192.168.1"
Ip(i) == <<ScanSubnet, i>>

\* a mutant of the range: the loop body runs at least once
HostRangeAtLeastOnce(start, end) == start..(IF end < start THEN start ELSE end)

\* a mutant of the range: end is excluded
HostRangeExclusive(start, end) == start..(end - 1)

\* range(start, end + 1)
HostRange(start, end) == start..end

\* what json.loads(decrypted) gives: a sysinfo with an alias, one without,
\* the empty object, an object whose system is not an object, a list, or
\* the exception for text that is not JSON
LoadsValues ==
  {[system |-> [get_sysinfo |-> [alias |-> "Plug"]]],
   [system |-> [get_sysinfo |-> <<>>]],
   <<>>,
   [system |-> JNum],
   JList(<<>>)}

\* the ways check_device runs once its socket exists:
\*   early_raise  settimeout or connect_ex raises (lines 35-36)
\*   refused      connect_ex returns non-zero
\*   io_error     send or recv raises
\*   short        recv returns at most 4 bytes
\*   undecodable  json.loads raises
\*   reply        json.loads returns loads
NoPath == [kind |-> "none"]
FinishPaths ==
  {[kind |-> k] : k \in {"early_raise", "refused", "io_error", "short", "undecodable"}}
    \cup {[kind |-> "reply", loads |-> v] : v \in LoadsValues}

\* device_info.get('system', {}).get('get_sysinfo', {}).get('alias',
\* f'Device {ip}'): [ret |-> name], or AttributeError when .get is called on
\* a value that is not a dict
DeviceName(device_info, ip) ==
  IF ~IsDict(device_info) THEN [raised |-> "AttributeError"]
  ELSE LET sys == Get(device_info, "system", <<>>)
       IN IF ~IsDict(sys) THEN [raised |-> "AttributeError"]
          ELSE LET sysinfo == Get(sys, "get_sysinfo", <<>>)
               IN IF ~IsDict(sysinfo) THEN [raised |-> "AttributeError"]
                  ELSE [ret |-> IF "alias" \in DOMAIN sysinfo
                                THEN <<sysinfo.alias>>
                                ELSE <<"Device ", ip>>]

\* the entry of the inner "except:" (network_scan.py:64)
GenericEntry(ip) == [ip |-> ip, name |-> <<"Device ", ip>>, responding |-> TRUE]

\* a mutant of check_device: a short reply is reported as a device
ProbeReturnShort(path, ip) ==
  IF path.kind = "reply" /\ ~Raised(DeviceName(path.loads, ip))
  THEN [ip |-> ip, name |-> DeviceName(path.loads, ip).ret,
        responding |-> TRUE, info |-> path.loads]
  ELSE IF path.kind \in {"undecodable", "reply", "short"} THEN GenericEntry(ip)
  ELSE JNull

\* what check_device(ip) returns on a path (None is JNull)
ProbeReturn(path, ip) ==
  IF path.kind \in {"no_socket", "early_raise", "refused", "io_error", "short"}
  THEN JNull
  ELSE IF path.kind = "undecodable" THEN GenericEntry(ip)
  ELSE LET name == DeviceName(path.loads, ip)
       IN IF Raised(name) THEN GenericEntry(ip)
          ELSE [ip |-> ip, name |-> name.ret, responding |-> TRUE,
                info |-> path.loads]

\* the states the socket can be in when check_device returns: sock.close() is
\* called at lines 46, 68 and 71, not in the outer "except:" of line 73, where
\* the socket stays open until the runtime reclaims the object, which may be
\* at the return itself
SocketAfter(path) ==
  IF path.kind = "no_socket" THEN {"none"}
  ELSE IF path.kind = "early_raise" THEN {"open", "closed"}
  ELSE {"closed"}

\* "if result:" - None is false, an entry is a non-empty dict
ResultTruthy(r) == IsDict(r)

\* a mutant of ThreadPoolExecutor: one thread per submitted probe
CanStartUnbounded(running, workers) == TRUE

\* ThreadPoolExecutor(max_workers): a call is with a worker when fewer than
\* max_workers calls are running or ahead of it
CanStart(running, workers) == running < workers

Submitted == DOMAIN probe
WithStage(st) == {h \in Submitted : probe[h].st = st}
NextHost == scanStart + Cardinality(Submitted)

\* scan_subnet(subnet, start, end, max_workers=w) has been called: found = []
InitScanVars ==
  /\ scanStart \in 1..2
  /\ scanEnd \in 0..MaxHost
  /\ max_workers \in 1..MaxWorkers
  /\ probe = <<>>
  /\ found = <<>>
  /\ scanPc = "submitting"

\* one turn of "for i in range(start, end + 1)": executor.submit
Submit ==
  /\ scanPc = "submitting"
  /\ NextHost \in HostRange(scanStart, scanEnd)
  /\ probe' = probe @@ (NextHost :> [st |-> "queued", path |-> NoPath, sock |-> "none"])
  /\ UNCHANGED <<scanStart, scanEnd, max_workers, found, scanPc>>
  /\ UNCHANGED <<codecVars, deviceVars, discVars, subnetVars, cliVars>>

\* the range is exhausted: as_completed(futures) starts
EndSubmit ==
  /\ scanPc = "submitting"
  /\ NextHost \notin HostRange(scanStart, scanEnd)
  /\ scanPc' = "collecting"
  /\ UNCHANGED <<scanStart, scanEnd, max_workers, probe, found>>
  /\ UNCHANGED <<codecVars, deviceVars, discVars, subnetVars, cliVars>>

\* the queued calls submitted before h
QueuedBefore(h) == {q \in WithStage("queued") : q < h}

\* the queued calls a worker holds: the free workers take the calls in the
\* order submitted, so these are the oldest queued calls, one per worker
\* that runs no probe
WithWorker ==
  {h \in WithStage("queued") :
     CanStart(Cardinality(WithStage("running")) + Cardinality(QueuedBefore(h)),
              max_workers)}

\* check_device of a call that a worker holds creates its socket (line 34),
\* or socket.socket raises and check_device returns None; which of the
\* workers gets there first is the scheduler's choice
StartProbe ==
  /\ \E h \in WithWorker, ok \in BOOLEAN :
       probe' = [probe EXCEPT ![h] =
                   IF ok THEN [st |-> "running", path |-> NoPath, sock |-> "open"]
                   ELSE [st |-> "finished", path |-> [kind |-> "no_socket"],
                         sock |-> "none"]]
  /\ UNCHANGED <<scanStart, scanEnd, max_workers, found, scanPc>>
  /\ UNCHANGED <<codecVars, deviceVars, discVars, subnetVars, cliVars>>

\* check_device runs from line 35 to its return
FinishProbe ==
  \E h \in WithStage("running"), path \in FinishPaths :
    /\ \E after \in SocketAfter(path) :
         probe' = [probe EXCEPT ![h] =
                     [st |-> "finished", path |-> path, sock |-> after]]
    /\ UNCHANGED <<scanStart, scanEnd, max_workers, found, scanPc>>
    /\ UNCHANGED <<codecVars, deviceVars, discVars, subnetVars, cliVars>>

\* one turn of "for future in as_completed(futures)"
Collect ==
  /\ scanPc = "collecting"
  /\ \E h \in WithStage("finished") :
       LET r == ProbeReturn(probe[h].path, Ip(h))
       IN /\ probe' = [probe EXCEPT ![h].st = "collected"]
          /\ found' = IF ResultTruthy(r) THEN Append(found, r) ELSE found
  /\ UNCHANGED <<scanStart, scanEnd, max_workers, scanPc>>
  /\ UNCHANGED <<codecVars, deviceVars, discVars, subnetVars, cliVars>>

\* every future has been consumed: the executor shuts down, return found
ScanReturn ==
  /\ scanPc = "collecting"
  /\ WithStage("collected") = Submitted
  /\ scanPc' = "done"
  /\ UNCHANGED <<scanStart, scanEnd, max_workers, probe, found>>
  /\ UNCHANGED <<codecVars, deviceVars, discVars, subnetVars, cliVars>>

InitScan ==
  InitCodecVars /\ InitDeviceIdle /\ InitScanVars /\ InitDiscIdle /\ InitSubnetIdle
    /\ InitCliIdle
NextScan == Submit \/ EndSubmit \/ StartProbe \/ FinishProbe \/ Collect \/ ScanReturn
SpecScan == InitScan /\ [][NextScan]_vars

\* ------------------------------------------------------------- scan claims

\* C11: a scan over an empty host range (start > end) returns an empty list
\* and starts no probe: no call is submitted, so no socket is opened and no
\* connect is attempted.
C11_EmptyRange ==
  scanStart > scanEnd =>
    /\ Submitted = {}
    /\ found = <<>>

\* C11 witness: a scan with start = 2, end = 1 has returned the empty list
C11_Witness ==
  /\ scanPc = "done"
  /\ scanStart = 2
  /\ scanEnd = 1
  /\ found = <<>>

\* the decoded reply is an object from which the alias can be read
UsableInfo(v) ==
  /\ IsDict(v)
  /\ "system" \in DOMAIN v =>
       /\ IsDict(v.system)
       /\ "get_sysinfo" \in DOMAIN v.system => IsDict(v.system.get_sysinfo)

\* the alias of a usable reply, <<>> when it has none
AliasOf(v) ==
  IF "system" \in DOMAIN v /\ "get_sysinfo" \in DOMAIN v.system
  THEN GetOpt(v.system.get_sysinfo, "alias")
  ELSE <<>>

\* the positions of found that carry the address of host h
EntriesOf(h) == {k \in 1..Len(found) : found[k].ip = Ip(h)}

\* C13 as stated: a host is in the result only if its connect succeeded and
\* its reply decoded to valid JSON, and then its entry carries the info; a
\* host whose reply does not decode is excluded.
C13_OnlyDecoded ==
  \A h \in WithStage("collected") :
    /\ EntriesOf(h) /= {} => probe[h].path.kind = "reply"
    /\ \A k \in EntriesOf(h) : "info" \in DOMAIN found[k]

\* C13 amended: a host appears in the result only if its TCP connect
\* succeeded and it returned more than 4 bytes.  When the bytes decode to a
\* JSON object from which the alias can be read, the entry carries address,
\* name (the alias, or a generic label when absent), responding true and the
\* decoded info; when they do not, the host is still included, with the
\* generic label and responding true but without info.  A host whose connect
\* or send/receive failed, or that returned at most 4 bytes, is excluded.
C13_Entries ==
  \A h \in WithStage("collected") :
    LET p == probe[h].path
    IN /\ p.kind \in {"no_socket", "early_raise", "refused", "io_error", "short"}
            => EntriesOf(h) = {}
       /\ p.kind \in {"undecodable", "reply"} => Cardinality(EntriesOf(h)) = 1
       /\ \A k \in EntriesOf(h) :
            /\ found[k].responding = TRUE
            /\ IF p.kind = "reply" /\ UsableInfo(p.loads)
               THEN /\ DOMAIN found[k] = {"ip", "name", "responding", "info"}
                    /\ found[k].info = p.loads
                    /\ found[k].name = (IF AliasOf(p.loads) = <<>>
                                        THEN <<"Device ", Ip(h)>>
                                        ELSE AliasOf(p.loads))
               ELSE /\ DOMAIN found[k] = {"ip", "name", "responding"}
                    /\ found[k].name = <<"Device ", Ip(h)>>

\* C13 witness: host 1 answered with a sysinfo carrying an alias, host 2 with
\* bytes that are not JSON, host 3 refused; the result lists 1 and 2
C13_Witness ==
  /\ scanPc = "done"
  /\ Submitted = {1, 2, 3}
  /\ probe[1].path.kind = "reply" /\ AliasOf(probe[1].path.loads) = <<"Plug">>
  /\ probe[2].path.kind = "undecodable"
  /\ probe[3].path.kind = "refused"
  /\ Len(found) = 2
  /\ EntriesOf(1) /= {} /\ EntriesOf(2) /= {} /\ EntriesOf(3) = {}

\* the probes in flight: the socket is open and check_device has not returned
InFlight == {h \in Submitted : probe[h].st = "running" /\ probe[h].sock = "open"}

\* C14: at every moment of a scan the number of probes in flight is at most
\* max_workers.
C14_BoundedProbes == Cardinality(InFlight) <= max_workers

\* C14 witness: max_workers probes are in flight while another waits
C14_Witness ==
  /\ max_workers = 2
  /\ Cardinality(InFlight) = 2
  /\ WithStage("queued") /= {}

\* C15: scan_subnet probes every suffix of [start, end] once, returns only
\* after every probe has finished, and returns exactly the non-empty probe
\* results, each once, whichever probes fail; a failing probe never stops the
\* scan short of its return.
C15_AllResults ==
  /\ Submitted \subseteq scanStart..scanEnd
  /\ scanPc /= "done" => ENABLED NextScan
  /\ scanPc = "done" =>
       /\ Submitted = scanStart..scanEnd
       /\ \A h \in Submitted : probe[h].st = "collected"
       /\ Len(found) =
            Cardinality({h \in Submitted : probe[h].path.kind \in {"undecodable", "reply"}})
       /\ \A h \in Submitted :
            probe[h].path.kind \in {"undecodable", "reply"} =>
              \E k \in 1..Len(found) : found[k] = ProbeReturn(probe[h].path, Ip(h))

\* C15 witness: of three probes the first failed to connect, the second could
\* not create a socket, the third answered; the scan returned the third
C15_Witness ==
  /\ scanPc = "done"
  /\ Submitted = {1, 2, 3}
  /\ probe[1].path.kind = "refused"
  /\ probe[2].path.kind = "no_socket"
  /\ probe[3].path.kind = "reply"
  /\ Len(found) = 1
  /\ found[1].ip = Ip(3)

\* ================================================== the local subnet

\* an IPv4 address "a.b.c.d" is the sequence <<a, b, c, d>> of its octets, a
\* subnet "a.b.c" the sequence <<a, b, c>>

\* the fallback of get_local_subnet, "192.168.1"
DefaultSubnet == <<192, 168, 1>>

\* what s.getsockname()[0] gives after s.connect(("8.8.8.8", 80)): private,
\* carrier-grade, link-local and public addresses
LocalIps ==
  {<<a, b, c, 5>> : a \in {8, 10, 100, 169, 172, 192},
                    b \in {0, 16, 168, 254},
                    c \in {0, 1, 2, 255}}

\* the detection gives an address, or socket / connect / getsockname raises
Detections == {[ret |-> ip] : ip \in LocalIps} \cup {[raised |-> "OSError"]}

\* local_ip.startswith("192.168."), ("10.") and ("172."): the prefix ends in a
\* dot, so it fixes whole octets
StartsWith192168(ip) == ip[1] = 192 /\ ip[2] = 168
StartsWith10(ip) == ip[1] = 10
StartsWith172(ip) == ip[1] = 172

\* parts = local_ip.split("."); f"{parts[0]}.{parts[1]}.{parts[2]}"
FirstThree(ip) == <<ip[1], ip[2], ip[3]>>

\* a mutant of get_local_subnet: every detected address gives its prefix
GetLocalSubnetAnyAddress(detection) ==
  IF Raised(detection) THEN DefaultSubnet ELSE FirstThree(detection.ret)

\* get_local_subnet, given what the detection of lines 80-83 gave
get_local_subnet(detection) ==
  IF Raised(detection) THEN DefaultSubnet
  ELSE IF StartsWith192168(detection.ret) THEN FirstThree(detection.ret)
  ELSE IF StartsWith10(detection.ret) THEN FirstThree(detection.ret)
  ELSE IF StartsWith172(detection.ret) THEN FirstThree(detection.ret)
  ELSE DefaultSubnet

InitSubnetVars ==
  /\ local_ip \in Detections
  /\ subnet = <<>>
  /\ subnetPc = "idle"

\* a call get_local_subnet()
GetLocalSubnet ==
  /\ subnetPc = "idle"
  /\ subnet' = get_local_subnet(local_ip)
  /\ subnetPc' = "done"
  /\ UNCHANGED local_ip
  /\ UNCHANGED <<codecVars, deviceVars, scanVars, discVars, cliVars>>

InitSubnet ==
  InitCodecVars /\ InitDeviceIdle /\ InitScanIdle /\ InitDiscIdle /\ InitSubnetVars
    /\ InitCliIdle
NextSubnet == GetLocalSubnet
SpecSubnet == InitSubnet /\ [][NextSubnet]_vars

\* ----------------------------------------------------------- subnet claims

\* C16 as stated: get_local_subnet returns a non-empty subnet: "a.b.c" for
\* every detected address a.b.c.d, "192.168.1" when the detection fails.
C16_AnyAddress ==
  subnetPc = "done" =>
    /\ subnet /= <<>>
    /\ ~Raised(local_ip) =>
         subnet = <<local_ip.ret[1], local_ip.ret[2], local_ip.ret[3]>>
    /\ Raised(local_ip) => subnet = <<192, 168, 1>>

\* C16 amended: get_local_subnet always returns a non-empty subnet string:
\* whenever the detection succeeds with an address a.b.c.d that begins with
\* "192.168.", "10." or "172." it returns "a.b.c"; for every other detected
\* address, and whenever the detection fails, it returns "192.168.1".
C16_PrivateOrDefault ==
  subnetPc = "done" =>
    /\ subnet /= <<>>
    /\ Len(subnet) = 3
    /\ IF /\ ~Raised(local_ip)
          /\ \/ (local_ip.ret[1] = 192 /\ local_ip.ret[2] = 168)
             \/ local_ip.ret[1] \in {10, 172}
       THEN subnet = <<local_ip.ret[1], local_ip.ret[2], local_ip.ret[3]>>
       ELSE subnet = <<192, 168, 1>>

\* C16 witness: the detected address 172.16.2.5 gave the subnet 172.16.2
C16_Witness ==
  /\ subnetPc = "done"
  /\ ~Raised(local_ip)
  /\ local_ip.ret = <<172, 16, 2, 5>>
  /\ subnet = <<172, 16, 2>>

\* ================================================= the broadcast discovery

\* the sources of the datagrams that arrive, and their lengths: the echo of
\* the 33-byte probe, the threshold and one above, a sysinfo reply
Responders == {"10.0.0.2", "10.0.0.3"}
DatagramLens == {33, 50, 51, 200}

\* the elements of a sequence
Range(seq) == {seq[i] : i \in 1..Len(seq)}

\* a mutant of set.add: the address is appended whether present or not
SetAddAlways(seq, a) == Append(seq, a)

\* discovered.add(a), the set kept in insertion order
SetAdd(seq, a) == IF a \in Range(seq) THEN seq ELSE Append(seq, a)

\* list(discovered): the elements in the order the set iterates them, which
\* is any order
ListOrders(seq) ==
  {[i \in 1..Len(seq) |-> seq[f[i]]] :
     f \in {g \in [1..Len(seq) -> 1..Len(seq)] :
              \A i, j \in 1..Len(seq) : g[i] = g[j] => i = j}}

\* a mutant of the length filter: a datagram of exactly 50 bytes counts
IsDeviceReplyFrom50(len) == len >= MinReplyLen

\* "if len(data) > 50"
IsDeviceReply(len) == len > MinReplyLen

\* a mutant of the send loop: a failed sendto leaves the try block of line 181
AfterSendAbort(ok) == IF ok THEN "sending" ELSE "done"

\* "except Exception: continue" around sendto: the loop goes on either way
AfterSend(ok) == "sending"

\* a mutant of the receive loop: the per-receive timeout ends the loop too
AfterRecvTimeoutBreaks(kind) == IF kind = "data" THEN "continue" ELSE "break"

\* "except socket.timeout: continue" and "except Exception: break"
AfterRecv(kind) == IF kind = "error" THEN "break" ELSE "continue"

\* {"error": f"Discovery failed: {str(e)}"}
DiscoveryFailed(e) == [error |-> <<"Discovery failed: ", e>>]

\* sendLog after one more sendto of round r to address a
LogAttempt(log, r, a) ==
  IF <<r, a>> \in DOMAIN log THEN [log EXCEPT ![<<r, a>>] = @ + 1]
  ELSE log @@ (<<r, a>> :> 1)

\* discover_devices(timeout) has been called: discovered = set()
InitDiscVars ==
  /\ dPc = "idle"
  /\ dSock = "none"
  /\ sendRound = 0
  /\ sendAddr = 0
  /\ sendLog = <<>>
  /\ lastSend = "ok"
  /\ timeout \in 0..MaxTimeout
  /\ elapsed = 0
  /\ rx = [kind |-> "none"]
  /\ received = {}
  /\ discovered = <<>>
  /\ dResult = <<>>

\* the states the socket can be in after lines 183-194 took the path: it is
\* open when the setup succeeded; where setsockopt or the second bind raised,
\* the outer "except Exception" returns without sock.close() and the socket
\* stays open until the runtime reclaims the object, which may be at the
\* return itself
SocketAfterSetup(path) ==
  IF path = "socket_fails" THEN {"none"}
  ELSE IF path \in {"setsockopt_fails", "bind_fails"} THEN {"open", "closed"}
  ELSE {"open"}

\* lines 183-194: the socket is created, configured and bound.  Port 9999 may
\* be busy (the bind falls back to port 0); socket.socket may raise (there is
\* no socket then); setsockopt or the second bind may raise, and the outer
\* "except Exception" returns the error without closing the socket
Setup ==
  /\ dPc = "idle"
  /\ \E path \in {"ok", "port_busy", "socket_fails", "setsockopt_fails", "bind_fails"} :
       /\ dSock' \in SocketAfterSetup(path)
       /\ dPc' = IF path \in {"ok", "port_busy"} THEN "sending" ELSE "done"
       /\ dResult' = IF path \in {"ok", "port_busy"} THEN dResult
                     ELSE DiscoveryFailed("OSError")
  /\ UNCHANGED <<sendRound, sendAddr, sendLog, lastSend, timeout, elapsed, rx,
                 received, discovered>>
  /\ UNCHANGED <<codecVars, deviceVars, scanVars, subnetVars, cliVars>>

\* one sock.sendto(encrypted, (broadcast_addr, 9999)), which may raise
SendTo ==
  /\ dPc = "sending"
  /\ sendAddr < NumBroadcast
  /\ \E ok \in BOOLEAN :
       /\ sendLog' = LogAttempt(sendLog, sendRound, sendAddr)
       /\ lastSend' = IF ok THEN "ok" ELSE "failed"
       /\ sendAddr' = sendAddr + 1
       /\ dPc' = AfterSend(ok)
       /\ dResult' = IF AfterSend(ok) = "done" THEN DiscoveryFailed("OSError")
                     ELSE dResult
  /\ UNCHANGED <<dSock, sendRound, timeout, elapsed, rx, received, discovered>>
  /\ UNCHANGED <<codecVars, deviceVars, scanVars, subnetVars, cliVars>>

\* time.sleep(0.2) at the end of a round; after the last round
\* start_time = time.time() and the receive loop begins
RoundSleep ==
  /\ dPc = "sending"
  /\ sendAddr = NumBroadcast
  /\ sendRound' = sendRound + 1
  /\ sendAddr' = 0
  /\ dPc' = IF sendRound + 1 = SendRounds THEN "listening" ELSE "sending"
  /\ elapsed' = 0
  /\ UNCHANGED <<dSock, sendLog, lastSend, timeout, rx, received, discovered, dResult>>
  /\ UNCHANGED <<codecVars, deviceVars, scanVars, subnetVars, cliVars>>

\* leaving the loop: sock.close() and return list(discovered)
Leave(order) ==
  /\ dSock' = "closed"
  /\ dPc' = "done"
  /\ dResult' = [ret |-> order]

\* one turn of the receive loop whose recvfrom returns a datagram of a
\* responder after dt seconds
RecvData ==
  /\ dPc = "listening"
  /\ elapsed < timeout
  /\ \E a \in Responders, len \in DatagramLens, dt \in 0..RecvTimeout :
       /\ rx' = [kind |-> "data", addr |-> a, len |-> len]
       /\ received' = received \cup {<<a, len>>}
       /\ discovered' = IF IsDeviceReply(len) THEN SetAdd(discovered, a)
                        ELSE discovered
       /\ elapsed' = elapsed + dt
  /\ UNCHANGED <<dPc, dSock, sendRound, sendAddr, sendLog, lastSend, timeout, dResult>>
  /\ UNCHANGED <<codecVars, deviceVars, scanVars, subnetVars, cliVars>>

\* one turn of the receive loop whose recvfrom raises: socket.timeout after
\* RecvTimeout seconds, or another exception
RecvRaises ==
  /\ dPc = "listening"
  /\ elapsed < timeout
  /\ \E kind \in {"timeout", "error"} :
       /\ rx' = [kind |-> kind]
       /\ elapsed' = IF kind = "timeout" THEN elapsed + RecvTimeout ELSE elapsed
       /\ IF AfterRecv(kind) = "break"
          THEN \E order \in ListOrders(discovered) : Leave(order)
          ELSE UNCHANGED <<dPc, dSock, dResult>>
  /\ UNCHANGED <<sendRound, sendAddr, sendLog, lastSend, timeout, received, discovered>>
  /\ UNCHANGED <<codecVars, deviceVars, scanVars, subnetVars, cliVars>>

\* "while time.time() - start_time < timeout" is false
Expire ==
  /\ dPc = "listening"
  /\ ~(elapsed < timeout)
  /\ \E order \in ListOrders(discovered) : Leave(order)
  /\ UNCHANGED <<sendRound, sendAddr, sendLog, lastSend, timeout, elapsed, rx,
                 received, discovered>>
  /\ UNCHANGED <<codecVars, deviceVars, scanVars, subnetVars, cliVars>>

InitDisc ==
  InitCodecVars /\ InitDeviceIdle /\ InitScanIdle /\ InitDiscVars /\ InitSubnetIdle
    /\ InitCliIdle
NextDisc == Setup \/ SendTo \/ RoundSleep \/ RecvData \/ RecvRaises \/ Expire
SpecDisc == InitDisc /\ [][NextDisc]_vars

\* ------------------------------------------ claims about the discovery run

\* list is an ordering of the elements of seq, each once
IsOrderingOf(list, seq) ==
  /\ Len(list) = Len(seq)
  /\ Range(list) = Range(seq)
  /\ \A i, j \in 1..Len(list) : list[i] = list[j] => i = j

\* discover_devices returned a list
ReturnedList == dPc = "done" /\ "ret" \in DOMAIN dResult

\* C12: the list discover_devices returns holds each source address at most
\* once, whatever number of datagrams each responder sent and in whatever
\* order they arrived.
C12_NoDuplicates ==
  ReturnedList =>
    \A i, j \in 1..Len(dResult.ret) : dResult.ret[i] = dResult.ret[j] => i = j

\* both responders answered, one of them with two long datagrams, and the
\* returned list has two entries
C12_Witness ==
  /\ ReturnedList
  /\ {<<"10.0.0.2", 51>>, <<"10.0.0.2", 200>>, <<"10.0.0.3", 200>>} \subseteq received
  /\ Len(dResult.ret) = 2

\* C17 (as claimed): when check_device or discover_devices has returned, the
\* socket it opened has been closed.
C17_SocketsReleased ==
  /\ dPc = "done" => dSock /= "open"
  /\ \A h \in DOMAIN probe :
       probe[h].st \notin {"queued", "running"} => probe[h].sock /= "open"

\* a step that leaves the listening phase
LeavesListening == dPc = "listening" /\ dPc' /= "listening"

\* C18: the listening phase ends only when the overall timeout has elapsed or
\* a receive failed with an error other than the per-receive timeout; a
\* per-receive timeout before the deadline leaves discovery listening; when
\* the phase ends discovery is done and has returned the addresses collected
\* so far as a list, not an error.
C18_ListeningEnds ==
  [][ /\ LeavesListening =>
           /\ dPc' = "done"
           /\ ~(elapsed < timeout) \/ (rx' /= rx /\ rx'.kind = "error")
           /\ "ret" \in DOMAIN dResult'
           /\ IsOrderingOf(dResult'.ret, discovered)
           /\ discovered' = discovered
      /\ (dPc = "listening" /\ rx' /= rx /\ rx'.kind = "timeout" /\ elapsed' < timeout)
           => dPc' = "listening"
      /\ (dPc = "listening" /\ rx'.kind = "timeout" /\ dPc' = "done")
           => ~(elapsed < timeout)
    ]_vars

\* a receive error ended the run before the deadline with both responders
\* collected, and they were returned
C18_Witness ==
  /\ ReturnedList
  /\ rx.kind = "error"
  /\ elapsed < timeout
  /\ Len(discovered) = 2
  /\ IsOrderingOf(dResult.ret, discovered)

\* every address was tried once in every round
AllAttempted(log) ==
  /\ DOMAIN log = (0..(SendRounds - 1)) \X (0..(NumBroadcast - 1))
  /\ \A p \in DOMAIN log : log[p] = 1

\* the run's socket was set up: the phases after Idle other than the error
\* return of the setup
SetUp == dPc \in {"sending", "listening"} \/ ReturnedList

\* C19: a discovery run whose socket was set up attempts the send to each of
\* the 8 addresses in each of the 5 rounds, 40 attempts, whichever sends
\* fail, and moves through idle, sending, listening, done in that order: no
\* datagram is received before the last round has finished and nothing is
\* sent once listening has started.
C19_SendThenListen ==
  [][ /\ dPc' /= dPc =>
           \/ dPc = "idle" /\ dPc' = "sending"
           \/ dPc = "sending" /\ dPc' = "listening" /\ AllAttempted(sendLog)
           \/ dPc = "listening" /\ dPc' = "done"
           \/ dPc = "idle" /\ dPc' = "done" /\ "error" \in DOMAIN dResult'
      /\ (dPc' = "done" /\ "ret" \in DOMAIN dResult') => AllAttempted(sendLog')
      /\ (received' /= received \/ rx' /= rx) => dPc = "listening"
      /\ sendLog' /= sendLog => dPc = "sending"
    ]_vars

\* the run is listening after 40 attempts, the last of which failed
C19_Witness ==
  /\ dPc = "listening"
  /\ lastSend = "failed"
  /\ AllAttempted(sendLog)
  /\ Cardinality(DOMAIN sendLog) = 40

\* the sources of the datagrams longer than 50 bytes received so far
LongSources == {p[1] : p \in {q \in received : q[2] > 50}}

\* C20: the recorded addresses are exactly the sources of the datagrams
\* longer than 50 bytes received so far; a datagram of 50 bytes or fewer adds
\* no address.
C20_RecordedIffLong == Range(discovered) = LongSources

\* one responder sent 50 bytes and an echo of the probe and is not recorded,
\* the other sent 51 bytes and is
C20_Witness ==
  /\ {<<"10.0.0.2", 50>>, <<"10.0.0.2", 33>>, <<"10.0.0.3", 51>>} \subseteq received
  /\ discovered = <<"10.0.0.3">>

\* -------------------------------------------- claims about the CLI toggle

\* the positions of the relay commands among the commands a run sent
RelayCommandsAt(cmds) == {i \in 1..Len(cmds) : IsRelayCommand(cmds[i])}

\* the runs of the toggle command
ToggleRuns == {r \in Runs : cli[r].argv.command = "toggle"}

\* the state query gave a state, not an error result and not an exception
QueryGaveState(current) == ~Raised(current) /\ "error" \notin DOMAIN current

\* the state the relay command of a toggle must carry for the state read
Opposite(current) ==
  IF "relay_state" \in DOMAIN current /\ current.relay_state = 1 THEN 0 ELSE 1

\* C21 (as claimed): every run of toggle first queries the state; when the
\* query returns an error it issues no relay command and prints the error;
\* otherwise it issues exactly one relay command, opposite to the state read.
C21_AnyToggleRun ==
  \A r \in ToggleRuns :
    cli[r].pc = "exit" =>
      /\ Len(cli[r].sent) >= 1
      /\ cli[r].sent[1] = GetSysinfoCommand
      /\ IF "error" \in DOMAIN cli[r].current
         THEN /\ RelayCommandsAt(cli[r].sent) = {}
              /\ cli[r].out.stdout = cli[r].current
         ELSE /\ RelayCommandsAt(cli[r].sent) = {2}
              /\ cli[r].sent[2].system.set_relay_state.state = Opposite(cli[r].current)

\* C21: a run of toggle that was given an ip first queries the state and then
\* issues exactly one relay command, opposite to the state it read: state 0
\* (turn_off) when the queried relay_state is 1 and state 1 (turn_on)
\* otherwise, also when the result carries no relay_state; when the query
\* returns an error or raises, no relay command is issued and the error is
\* printed with exit status 1.  A run without an ip sends nothing and prints
\* that the ip is required.
C21_Toggle ==
  \A r \in ToggleRuns :
    LET run == cli[r]
    IN IF ~run.argv.ip
       THEN run.pc = "exit" => run.sent = <<>> /\ run.out = Printed(IpRequired, 1)
       ELSE /\ run.pc /= "start" =>
                 Len(run.sent) >= 1 /\ run.sent[1] = GetSysinfoCommand
            /\ run.pc = "queried" => RelayCommandsAt(run.sent) = {}
            /\ (run.pc \in {"switched", "exit"} /\ QueryGaveState(run.current)) =>
                 /\ RelayCommandsAt(run.sent) = {2}
                 /\ run.sent[2].system.set_relay_state.state = Opposite(run.current)
            /\ (run.pc = "exit" /\ ~QueryGaveState(run.current)) =>
                 /\ RelayCommandsAt(run.sent) = {}
                 /\ run.out.exit = 1
                 /\ "error" \in DOMAIN run.out.stdout
                 /\ ~Raised(run.current) => run.out.stdout = run.current

\* two runs of toggle on one plug took turns exchange by exchange: both read
\* relay_state 0, both sent state 1, and the relay is on
C21_Witness ==
  /\ ToggleRuns = Runs
  /\ \A r \in Runs :
       /\ cli[r].pc = "exit"
       /\ cli[r].argv.ip
       /\ cli[r].argv.child_id = <<>>
       /\ QueryGaveState(cli[r].current)
       /\ "relay_state" \in DOMAIN cli[r].current
       /\ cli[r].current.relay_state = 0
       /\ cli[r].sent = <<GetSysinfoCommand, SetRelayCommand(1), GetSysinfoCommand>>
       /\ cli[r].out.exit = 0
  /\ info = [system |-> [get_sysinfo |-> [relay_state |-> 1]]]

====
